---- MODULE Spec2Model ----
(***************************************************************************)
(* A model of the handins command line client: the `submit` command        *)
(* (src/src/main.rs, submit_file and validate_assignment, with             *)
(* Assignment::late of src/src/assignment.rs) and the `grade` command      *)
(* (fetch_grades and calculate_grade).                                     *)
(*                                                                         *)
(* Strings are sequences of one-character strings, so that trim,           *)
(* to_lowercase and remove_whitespace are computed as the code computes    *)
(* them.  Positions in vectors are 1-based here and 0-based in the code.   *)
(* Grades and weights are whole numbers, which f64 holds exactly: sums and *)
(* products are then exact, and a quotient is kept as an exact fraction    *)
(* (IEEE rounding is monotone, so it preserves = and <= between the       *)
(* quotients compared below); x/0 gives NaN or an infinity as IEEE does.   *)
(***************************************************************************)
EXTENDS Integers, Sequences, FiniteSets, TLC

VARIABLES
    cmd,          \* the subcommand main dispatches on: "submit" or "grade"
    portal,       \* the assignment table the course page holds (scrape order)
    recent,       \* matches.is_present("recent")
    query,        \* the ASSIGNMENT argument: None when absent, else its text
    pc,           \* position of the running command
    err,          \* the error the command returned (NoError while it has none)
    assignment,   \* submit_file: the query with its whitespace removed
    assignments,  \* submit_file: the ungraded assignments, sorted once pc passes "sort"
    candidates,   \* submit_file: submission_candidate_indices
    k,            \* submit_file: position of the for loop in candidates
    to_submit,    \* submit_file: position in assignments of the chosen one (0: none)
    now,          \* the clock value Assignment::late read (-1 before)
    released,     \* id of the assignment that reached the submission step (0: none)
    projection,   \* fetch_grades: the tuple calculate_grade returned
    ev,           \* history: the step taken last
    steps,        \* history: the steps taken so far
    ans,          \* history: the line read last from stdin
    asked,        \* history: position in candidates prompted for at the last read
    reads,        \* history: lines read by validate_assignment
    allValid,     \* history: every line validate_assignment read was a yes/no/empty answer
    latePrompted  \* history: the lateness prompt was printed

vars == <<cmd, portal, recent, query, pc, err, assignment, assignments, candidates,
          k, to_submit, now, released, projection, ev, steps, ans, asked, reads,
          allValid, latePrompted>>

\* Option<T>: None is the empty sequence and Some(x) the sequence <<x>>.
None == <<>>
Some(x) == <<x>>
is_some(o) == o # <<>>
unwrap(o) == o[1]

NoError == "none"

\* ---------------------------------------------------------------- bounds

MaxAssignments == 2   \* rows of the course page seen by submit
MaxDue == 2           \* due dates are 1..MaxDue, the clock reads 0..MaxDue+1
MaxReads == 3         \* lines validate_assignment may read in one run
MaxRecords == 3       \* rows of the course page seen by grade

\* ---------------------------------------------------------------- strings

is_whitespace(c) == c \in {" ", "\n", "\t"}

lower_char(c) ==
    CASE c = "Y" -> "y"
      [] c = "E" -> "e"
      [] c = "S" -> "s"
      [] c = "N" -> "n"
      [] c = "O" -> "o"
      [] OTHER -> c

to_lowercase(s) == [i \in DOMAIN s |-> lower_char(s[i])]

RECURSIVE trim_start(_)
trim_start(s) ==
    IF s # <<>> /\ is_whitespace(Head(s)) THEN trim_start(Tail(s)) ELSE s

RECURSIVE trim_end(_)
trim_end(s) ==
    IF s # <<>> /\ is_whitespace(s[Len(s)])
    THEN trim_end(SubSeq(s, 1, Len(s) - 1))
    ELSE s

trim(s) == trim_end(trim_start(s))

remove_whitespace(s) == SelectSeq(s, LAMBDA c : ~is_whitespace(c))

\* The lines stdin may deliver (read_line keeps the line break; at end of
\* input it delivers nothing).
Lines ==
    { <<"y", "\n">>,
      <<"y", "e", "s", "\n">>, <<" ", "Y", "e", "S", " ", "\n">>,
      <<"\n">>, <<>>,
      <<"n", "\n">>, <<"N", "\n">>,
      <<"n", "o", "\n">>,
      <<"m", "\n">> }

\* read_line returning Err (no line is one multi-character element).
IoError == <<"io error">>
NoLine == <<"no line">>

\* The ASSIGNMENT argument as typed.
Queries == { None, Some(<<" ">>), Some(<<"a", " ", "1">>) }

\* ---------------------------------------------------------------- records

Assignment(id, grade, weight, due_date) ==
    [id |-> id, grade |-> grade, weight |-> weight, due_date |-> due_date]

graded(a) == is_some(a.grade)

\* A variant of late that does not count the due instant itself.
late_strict(a, t) == t > a.due_date

\* Assignment::late, with t the value Local::now() returned.
late(a, t) == t >= a.due_date

DueDates == 1 .. MaxDue
Clock == 0 .. (MaxDue + 1)

RECURSIVE Tables(_, _, _, _)
\* Every table of at most n rows; the row at position i has id i.
Tables(n, grades, weights, dues) ==
    IF n = 0
    THEN {<<>>}
    ELSE LET shorter == Tables(n - 1, grades, weights, dues)
         IN shorter \cup
            { Append(t, Assignment(n, g, w, d)) :
                t \in {s \in shorter : Len(s) = n - 1},
                g \in grades, w \in weights, d \in dues }

SubmitPortals == Tables(MaxAssignments, {None, Some(90)}, {50}, DueDates)

Grades == {-10, 0, 90, 110}
Weights == {0, 50, 70}

GradePortals == Tables(MaxRecords, {None} \cup {Some(g) : g \in Grades}, Weights, {1})

\* ---------------------------------------------------------------- f64

\* A value of type f64: a fraction n/d in lowest terms (d > 0), NaN, or an
\* infinity with sign n.
abs(x) == IF x < 0 THEN -x ELSE x

RECURSIVE gcd(_, _)
gcd(a, b) == IF b = 0 THEN a ELSE gcd(b, a % b)

Finite(n, d) ==
    LET g == gcd(abs(n), d)
    IN [k |-> "finite", n |-> n \div g, d |-> d \div g]

NaN == [k |-> "nan", n |-> 0, d |-> 1]

Inf(sign) == [k |-> "inf", n |-> sign, d |-> 1]

\* a / b for whole numbers a and b.
fdiv(a, b) ==
    IF b = 0
    THEN IF a = 0 THEN NaN ELSE IF a > 0 THEN Inf(1) ELSE Inf(-1)
    ELSE IF b > 0 THEN Finite(a, b) ELSE Finite(-a, -b)

\* x - y
fsub(x, y) ==
    IF x.k = "nan" \/ y.k = "nan" THEN NaN
    ELSE IF x.k = "inf"
         THEN IF y.k = "inf" /\ y.n = x.n THEN NaN ELSE x
         ELSE IF y.k = "inf" THEN Inf(-y.n)
              ELSE Finite(x.n * y.d - y.n * x.d, x.d * y.d)

\* x <= y (false when either is NaN)
fle(x, y) ==
    IF x.k = "nan" \/ y.k = "nan" THEN FALSE
    ELSE IF x.k = "inf" THEN x.n = -1 \/ (y.k = "inf" /\ y.n = 1)
         ELSE IF y.k = "inf" THEN y.n = 1
              ELSE x.n * y.d <= y.n * x.d

Zero == Finite(0, 1)

\* ---------------------------------------------------------------- calculate_grade

RECURSIVE sum(_)
sum(s) == IF s = <<>> THEN 0 ELSE Head(s) + sum(Tail(s))

valid_weights(table) ==
    LET g == SelectSeq(table, graded) IN [i \in DOMAIN g |-> g[i].weight]

future_weights(table) ==
    LET u == SelectSeq(table, LAMBDA a : ~graded(a)) IN [i \in DOMAIN u |-> u[i].weight]

grades(table) ==
    LET g == SelectSeq(table, graded) IN [i \in DOMAIN g |-> unwrap(g[i].grade)]

\* fold(0.0, |sum, pair| pair.0 * pair.1 + sum) over grades zipped with valid_weights
scaled_grade(table) ==
    LET g == grades(table)
        w == valid_weights(table)
    IN sum([i \in DOMAIN g |-> g[i] * w[i]])

\* A variant of optimistic_grade that forgets to scale the remaining weight.
optimistic_grade_unscaled(scaled, total_weight) == scaled + (100 - total_weight)

optimistic_grade(scaled, total_weight) == scaled + 100 * (100 - total_weight)

\* A variant of points_available that subtracts the minimum grade, not the current one.
points_available_from_minimum(scaled, total_weight, future_weight) ==
    fsub(fdiv(scaled + 100 * future_weight, total_weight + future_weight),
         fdiv(scaled, 100))

points_available(scaled, total_weight, future_weight) ==
    fsub(fdiv(scaled + 100 * future_weight, total_weight + future_weight),
         fdiv(scaled, total_weight))

calculate_grade(table) ==
    LET total_weight == sum(valid_weights(table))
        future_weight == sum(future_weights(table))
        scaled == scaled_grade(table)
    IN [current |-> fdiv(scaled, total_weight),
        minimum |-> fdiv(scaled, 100),
        maximum |-> fdiv(optimistic_grade(scaled, total_weight), 100),
        upside  |-> points_available(scaled, total_weight, future_weight)]

\* ---------------------------------------------------------------- submit_file

Ungraded(table) == SelectSeq(table, LAMBDA a : ~graded(a))

\* A variant of is_empty that never reports an empty vector.
is_empty_never(s) == FALSE

is_empty(s) == s = <<>>

RECURSIVE insert_by_due(_, _)
insert_by_due(a, s) ==
    IF s = <<>>
    THEN <<a>>
    ELSE IF Head(s).due_date > a.due_date
         THEN <<Head(s)>> \o insert_by_due(a, Tail(s))
         ELSE <<a>> \o s

RECURSIVE sort_by_due_desc(_)
\* sort_by(|a1, a2| a2.due_date.cmp(&a1.due_date)): stable, latest first.
sort_by_due_desc(s) ==
    IF s = <<>> THEN <<>>
    ELSE insert_by_due(Head(s), sort_by_due_desc(Tail(s)))

\* What SimSearch::search may return over n indexed names: a ranked list of
\* distinct positions (the library decides which, and in which order).
Rankings(n) ==
    { r \in UNION { [1 .. m -> 1 .. n] : m \in 0 .. n } :
        \A i, j \in DOMAIN r : i # j => r[i] # r[j] }

\* A variant of validate_response that takes an unparseable line for a refusal.
validate_response_else_rejects(line) ==
    LET a == trim(line)
    IN IF a = <<>> \/ to_lowercase(a) = <<"y">> THEN "Some"
       ELSE "None"

\* A variant of validate_response that takes an unparseable line for consent.
validate_response_else_confirms(line) ==
    LET a == trim(line)
    IN IF to_lowercase(a) = <<"n">> THEN "None"
       ELSE "Some"

\* One pass of validate_assignment's loop over the line it read.
validate_response(line) ==
    LET a == trim(line)
    IN IF a = <<>> \/ to_lowercase(a) = <<"y">> THEN "Some"
       ELSE IF to_lowercase(a) = <<"n">> THEN "None"
       ELSE "retry"

\* One pass of the lateness loop over the line it read.
late_response(line) ==
    LET a == to_lowercase(trim(line))
    IN IF a \in { <<"y">>, <<"y", "e", "s">> } THEN "break"
       ELSE IF a \in { <<"n">>, <<>>, <<"n", "o">> } THEN "abort"
       ELSE "retry"

\* A variant of the choice of to_submit that asks in most-recent mode too.
skips_validation_never == FALSE

\* matches.is_present("recent") where to_submit is chosen.
skips_validation == recent

Fail(kind) == /\ pc' = "err"
              /\ err' = kind

Step(name) == /\ ev' = name
              /\ steps' = steps \cup {name}

Init ==
    /\ \/ /\ cmd = "submit"
          /\ portal \in SubmitPortals
          /\ recent \in BOOLEAN
          /\ query \in Queries
       \/ /\ cmd = "grade"
          /\ portal \in GradePortals
          /\ recent = FALSE
          /\ query = None
    /\ pc = "args"
    /\ err = NoError
    /\ assignment = None
    /\ assignments = <<>>
    /\ candidates = <<>>
    /\ k = 0
    /\ to_submit = 0
    /\ now = -1
    /\ released = 0
    /\ projection = None
    /\ ev = "start"
    /\ steps = {}
    /\ ans = NoLine
    /\ asked = 0
    /\ reads = 0
    /\ allValid = TRUE
    /\ latePrompted = FALSE

\* Lines 233-266: the file, the course, the assignment name and the hours.
ParseArgs ==
    /\ cmd = "submit" /\ pc = "args"
    /\ Step("args")
    /\ \E othersOk \in BOOLEAN :
         IF ~othersOk THEN Fail("bad_arguments") /\ UNCHANGED assignment
         ELSE IF ~is_some(query)
              THEN Fail("no_assignment_name") /\ UNCHANGED assignment
              ELSE /\ assignment' = Some(remove_whitespace(unwrap(query)))
                   /\ pc' = "fetch"
                   /\ UNCHANGED err
    /\ UNCHANGED <<cmd, portal, recent, query, assignments, candidates, k, to_submit,
                   now, released, projection, ans, asked, reads, allValid, latePrompted>>

\* Lines 268-272: scrape the course page, keep the ungraded rows.
Fetch ==
    /\ cmd = "submit" /\ pc = "fetch"
    /\ Step("fetch")
    /\ \E netOk \in BOOLEAN :
         IF netOk
         THEN /\ assignments' = Ungraded(portal)
              /\ pc' = "check_empty"
              /\ UNCHANGED err
         ELSE Fail("fetch_failed") /\ UNCHANGED assignments
    /\ UNCHANGED <<cmd, portal, recent, query, assignment, candidates, k, to_submit,
                   now, released, projection, ans, asked, reads, allValid, latePrompted>>

\* Lines 276-278.
CheckEmpty ==
    /\ cmd = "submit" /\ pc = "check_empty"
    /\ Step("check_empty")
    /\ IF is_empty(assignments)
       THEN Fail("all_graded")
       ELSE pc' = "sort" /\ UNCHANGED err
    /\ UNCHANGED <<cmd, portal, recent, query, assignment, assignments, candidates, k,
                   to_submit, now, released, projection, ans, asked, reads, allValid,
                   latePrompted>>

\* Line 280.
Sort ==
    /\ cmd = "submit" /\ pc = "sort"
    /\ Step("sort")
    /\ assignments' = sort_by_due_desc(assignments)
    /\ pc' = "search"
    /\ UNCHANGED <<cmd, portal, recent, query, err, assignment, candidates, k, to_submit,
                   now, released, projection, ans, asked, reads, allValid, latePrompted>>

\* Lines 282-290.
Search ==
    /\ cmd = "submit" /\ pc = "search"
    /\ IF recent
       THEN /\ candidates' = <<1>>
            /\ Step("recent")
       ELSE /\ candidates' \in Rankings(Len(assignments))
            /\ Step("search")
    /\ pc' = "select"
    /\ UNCHANGED <<cmd, portal, recent, query, err, assignment, assignments, k, to_submit,
                   now, released, projection, ans, asked, reads, allValid, latePrompted>>

\* Lines 296-303: the head of the block that chooses to_submit.
Select ==
    /\ cmd = "submit" /\ pc = "select"
    /\ Step("select")
    /\ IF is_empty(candidates)
       THEN Fail("no_match") /\ UNCHANGED <<to_submit, k>>
       ELSE IF skips_validation
            THEN IF 1 \in DOMAIN assignments
                 THEN /\ to_submit' = 1
                      /\ pc' = "late_check"
                      /\ UNCHANGED <<err, k>>
                 ELSE Fail("panic") /\ UNCHANGED <<to_submit, k>>
            ELSE /\ k' = 1
                 /\ pc' = "validate"
                 /\ UNCHANGED <<err, to_submit>>
    /\ UNCHANGED <<cmd, portal, recent, query, assignment, assignments, candidates,
                   now, released, projection, ans, asked, reads, allValid, latePrompted>>

\* The answers the workflow's grammar calls valid.
IsYesNoOrEmpty(line) ==
    line # IoError /\
    to_lowercase(trim(line)) \in { <<>>, <<"y">>, <<"y", "e", "s">>, <<"n">>, <<"n", "o">> }

\* Lines 303-313 with validate_assignment (565-584): one prompt, one line read.
Validate ==
    /\ cmd = "submit" /\ pc = "validate"
    /\ reads < MaxReads
    /\ Step("validate")
    /\ \E line \in Lines \cup {IoError} :
         /\ ans' = line
         /\ asked' = k
         /\ reads' = reads + 1
         /\ allValid' = (allValid /\ IsYesNoOrEmpty(line))
         /\ IF k \notin DOMAIN candidates   \* the for loop has no index left
            THEN Fail("not_found") /\ UNCHANGED <<to_submit, k>>
            ELSE IF line = IoError
            THEN Fail("stdin") /\ UNCHANGED <<to_submit, k>>
            ELSE LET r == validate_response(line)
                 IN IF r = "Some"
                    THEN /\ to_submit' = candidates[k]
                         /\ pc' = "late_check"
                         /\ UNCHANGED <<err, k>>
                    ELSE IF r = "None"
                         THEN IF k < Len(candidates)
                              THEN /\ k' = k + 1
                                   /\ UNCHANGED <<pc, err, to_submit>>
                              ELSE /\ Fail("not_found")
                                   /\ UNCHANGED <<to_submit, k>>
                         ELSE UNCHANGED <<pc, err, to_submit, k>>
    /\ UNCHANGED <<cmd, portal, recent, query, assignment, assignments, candidates,
                   now, released, projection, latePrompted>>

\* Lines 319-327: read the clock; print the lateness prompt when late.
LateCheck ==
    /\ cmd = "submit" /\ pc = "late_check"
    /\ Step("late_check")
    /\ \E t \in Clock :
         /\ now' = t
         /\ IF late(assignments[to_submit], t)
            THEN /\ latePrompted' = TRUE
                 /\ pc' = "late_prompt"
            ELSE /\ pc' = "submit"
                 /\ UNCHANGED latePrompted
    /\ UNCHANGED <<cmd, portal, recent, query, err, assignment, assignments, candidates,
                   k, to_submit, released, projection, ans, asked, reads, allValid>>

\* Lines 330-342: one line read by the lateness loop.
LateAnswer ==
    /\ cmd = "submit" /\ pc = "late_prompt"
    /\ Step("late_answer")
    /\ \E line \in Lines \cup {IoError} :
         /\ ans' = line
         /\ IF line = IoError
            THEN Fail("stdin")
            ELSE LET r == late_response(line)
                 IN IF r = "break" THEN pc' = "submit" /\ UNCHANGED err
                    ELSE IF r = "abort" THEN Fail("user_abort")
                    ELSE UNCHANGED <<pc, err>>
    /\ UNCHANGED <<cmd, portal, recent, query, assignment, assignments, candidates,
                   k, to_submit, now, released, projection, asked, reads, allValid,
                   latePrompted>>

\* Lines 344-402: the chosen assignment is handed to the submission step.
Submit ==
    /\ cmd = "submit" /\ pc = "submit"
    /\ Step("submit")
    /\ released' = assignments[to_submit].id
    /\ pc' = "done"
    /\ UNCHANGED <<cmd, portal, recent, query, err, assignment, assignments, candidates,
                   k, to_submit, now, projection, ans, asked, reads, allValid,
                   latePrompted>>

\* fetch_grades, lines 128-135: the course argument and the scrape.
GradeFetch ==
    /\ cmd = "grade" /\ pc = "args"
    /\ Step("grade_fetch")
    /\ \E ok \in BOOLEAN :
         IF ok
         THEN /\ assignments' = portal
              /\ pc' = "project"
              /\ UNCHANGED err
         ELSE Fail("fetch_failed") /\ UNCHANGED assignments
    /\ UNCHANGED <<cmd, portal, recent, query, assignment, candidates, k, to_submit,
                   now, released, projection, ans, asked, reads, allValid, latePrompted>>

\* fetch_grades, lines 137-187: the column width (max().unwrap() panics on an
\* empty table), then calculate_grade and the report.
GradeProject ==
    /\ cmd = "grade" /\ pc = "project"
    /\ Step("grade_project")
    /\ IF is_empty(assignments)
       THEN Fail("panic") /\ UNCHANGED projection
       ELSE /\ projection' = Some(calculate_grade(assignments))
            /\ pc' = "done"
            /\ UNCHANGED err
    /\ UNCHANGED <<cmd, portal, recent, query, assignment, assignments, candidates, k,
                   to_submit, now, released, ans, asked, reads, allValid, latePrompted>>

Next ==
    \/ GradeFetch
    \/ GradeProject
    \/ ParseArgs
    \/ Fetch
    \/ CheckEmpty
    \/ Sort
    \/ Search
    \/ Select
    \/ Validate
    \/ LateCheck
    \/ LateAnswer
    \/ Submit

Spec == Init /\ [][Next]_vars

\* ---------------------------------------------------------------- properties

y == <<"y">>
yes == <<"y", "e", "s">>
n == <<"n">>
no == <<"n", "o">>
empty == <<>>

\* The line read last, trimmed (and lower-cased).
Trimmed == IF ans \in {IoError, NoLine} THEN ans ELSE trim(ans)
Lowered == IF ans \in {IoError, NoLine} THEN ans ELSE to_lowercase(trim(ans))

Chosen == assignments[to_submit]

AfterSelection == {"late_check", "late_prompt", "submit", "done"}

SelectionSteps == {"sort", "search", "recent", "select", "validate"}

\* C1: at the candidate prompt each of "y", the empty line and "yes" in any
\* letter case confirms the candidate asked about and ends the selection
\* with success, without a re-prompt.
C1_AffirmativeConfirms ==
    (ev = "validate" /\ (Trimmed \in {y, empty} \/ Lowered = yes))
        => /\ pc = "late_check"
           /\ to_submit = candidates[asked]

\* What the code does for C1's three answers: "y" in either case and the
\* empty line confirm; "yes" prompts again for the same candidate.
C1_CodeBehaviour ==
    /\ (ev = "validate" /\ (Lowered = y \/ Trimmed = empty))
         => (pc = "late_check" /\ to_submit = candidates[asked])
    /\ (ev = "validate" /\ Lowered = yes)
         => (pc = "validate" /\ k = asked /\ to_submit = 0)

\* C2: at the prompt for the i-th ranked candidate each of "n" and "no"
\* rejects it: the next ranked candidate is asked about when one remains,
\* and otherwise the selection fails and nothing is released.
C2_NegativeAdvances ==
    (ev = "validate" /\ Trimmed \in {n, no})
        => IF asked < Len(candidates)
           THEN pc = "validate" /\ k = asked + 1 /\ to_submit = 0
           ELSE pc = "err" /\ err = "not_found" /\ released = 0

\* What the code does for C2's answers: "n" in either case rejects; "no"
\* prompts again for the same candidate.
C2_CodeBehaviour ==
    /\ (ev = "validate" /\ Lowered = n)
         => IF asked < Len(candidates)
            THEN pc = "validate" /\ k = asked + 1 /\ to_submit = 0
            ELSE pc = "err" /\ err = "not_found" /\ released = 0
    /\ (ev = "validate" /\ Lowered = no)
         => (pc = "validate" /\ k = asked /\ to_submit = 0)

\* C3: in fuzzy mode, once a candidate is confirmed, it is late exactly when
\* the clock has reached its due date (the due instant included); a late
\* candidate needs a second answer, of which only "y"/"yes" releases it,
\* "n", "no" or the empty line abort the whole command (user abort, nothing
\* released, no way back to the selection) and anything else asks again;
\* a candidate that is not late gets no second prompt.
C3_LatenessGate ==
    (cmd = "submit" /\ ~recent) =>
        /\ ev = "late_check" =>
              /\ latePrompted <=> now >= Chosen.due_date
              /\ pc = (IF now >= Chosen.due_date THEN "late_prompt" ELSE "submit")
        /\ ev = "late_answer" =>
              /\ Lowered \in {y, yes} => pc = "submit"
              /\ Lowered \in {n, no, empty} =>
                    (pc = "err" /\ err = "user_abort" /\ released = 0)
              /\ (ans # IoError /\ Lowered \notin {y, yes, n, no, empty}) =>
                    (pc = "late_prompt" /\ err = NoError)
        /\ pc \in {"submit", "done"} =>
              /\ latePrompted <=> now >= Chosen.due_date
              /\ latePrompted => Lowered \in {y, yes}
        /\ latePrompted => (pc \in {"late_prompt", "submit", "done", "err"} /\ k <= asked)
        /\ err = "user_abort" => (pc = "err" /\ released = 0 /\ latePrompted)

\* C3's case: a candidate confirmed in fuzzy mode at its exact due instant,
\* refused at the lateness prompt.
C3_Witness ==
    /\ cmd = "submit" /\ ~recent
    /\ to_submit # 0 /\ now = Chosen.due_date
    /\ ev = "late_answer" /\ Lowered = empty
    /\ err = "user_abort"

\* The ungraded row with the greatest due date, the first such in scrape order.
ArgMaxFirst(s) ==
    s[CHOOSE i \in DOMAIN s :
        \A j \in DOMAIN s :
            /\ s[j].due_date <= s[i].due_date
            /\ j < i => s[j].due_date < s[i].due_date]

\* The command ended for a reason other than the file, course or hours
\* arguments or the network.
EndedOnItsOwn ==
    /\ pc \in {"err", "done"}
    /\ err \notin {"bad_arguments", "fetch_failed"}

\* C4: in most-recent mode, for every non-empty list of ungraded candidates
\* and every query (no query included), exactly one candidate is selected:
\* the one with the greatest due date, the first in scrape order among equals.
C4_MostRecentSelects ==
    (cmd = "submit" /\ recent /\ Ungraded(portal) # <<>> /\ EndedOnItsOwn)
        => /\ candidates = <<1>>
           /\ to_submit = 1
           /\ Chosen = ArgMaxFirst(Ungraded(portal))

\* What the code does for C4 when the ASSIGNMENT argument is given.
C4_CodeBehaviour ==
    (cmd = "submit" /\ recent /\ Ungraded(portal) # <<>> /\ EndedOnItsOwn
       /\ is_some(query))
        => /\ candidates = <<1>>
           /\ to_submit = 1
           /\ Chosen = ArgMaxFirst(Ungraded(portal))

\* C5 as stated: in most-recent mode no yes/no prompt is ever issued, late
\* or not.
C5_NoPromptAtAll ==
    (cmd = "submit" /\ recent) => (reads = 0 /\ ~latePrompted)

\* C5 amended: in most-recent mode the candidate prompt is never issued and
\* the first row of the sorted list is the one chosen; the lateness prompt
\* is issued exactly when that row is late, and a late row reaches the
\* submission step only after "y"/"yes".
C5_NoCandidatePrompt ==
    (cmd = "submit" /\ recent) =>
        /\ reads = 0
        /\ "validate" \notin steps
        /\ pc \in AfterSelection => to_submit = 1
        /\ pc \in {"late_prompt", "submit", "done"} =>
              (latePrompted <=> now >= Chosen.due_date)
        /\ (pc \in {"submit", "done"} /\ latePrompted) => Lowered \in {y, yes}
        /\ released # 0 => released = Chosen.id

\* C5's case: most-recent mode, a late row released after the lateness prompt.
C5_Witness ==
    /\ cmd = "submit" /\ recent
    /\ pc = "done" /\ released # 0
    /\ latePrompted /\ reads = 0

GradedWeightSum == sum(valid_weights(portal))

NoneUngraded == SelectSeq(portal, LAMBDA a : ~graded(a)) = <<>>

Projected == cmd = "grade" /\ is_some(projection)

IsNumber(x) == x.k \in {"finite", "nan", "inf"}

\* C6: when the graded weight sum is 0 the projection signals an error for
\* current and for upside, not a number, NaN or zero, and still returns
\* minimum = 0.
C6_UndefinedSignalled ==
    (Projected /\ GradedWeightSum = 0)
        => /\ unwrap(projection).minimum = Zero
           /\ ~IsNumber(unwrap(projection).current)
           /\ ~IsNumber(unwrap(projection).upside)

\* What the code does for C6 on a table with rows: NaN for current and
\* upside, 0 for minimum.
C6_CodeBehaviour ==
    (Projected /\ GradedWeightSum = 0)
        => /\ unwrap(projection).minimum = Zero
           /\ unwrap(projection).current = NaN
           /\ unwrap(projection).upside = NaN

\* C7 as stated: with a graded record and a positive graded weight sum,
\* minimum <= current <= maximum, whatever the grades.
C7_Bracketed ==
    (Projected /\ grades(portal) # <<>> /\ GradedWeightSum > 0)
        => /\ fle(unwrap(projection).minimum, unwrap(projection).current)
           /\ fle(unwrap(projection).current, unwrap(projection).maximum)

GradesInRange == \A i \in DOMAIN grades(portal) :
                    0 <= grades(portal)[i] /\ grades(portal)[i] <= 100

\* C7 amended: with every grade in [0,100] and a graded weight sum that is
\* positive and at most 100, minimum <= current <= maximum.
C7_BracketedInRange ==
    (Projected /\ grades(portal) # <<>> /\ GradedWeightSum > 0
       /\ GradedWeightSum <= 100 /\ GradesInRange)
        => /\ fle(unwrap(projection).minimum, unwrap(projection).current)
           /\ fle(unwrap(projection).current, unwrap(projection).maximum)

\* C7's case: a graded 90 of weight 50 beside an ungraded row.
C7_Witness ==
    /\ Projected /\ GradesInRange
    /\ GradedWeightSum = 50 /\ ~NoneUngraded
    /\ unwrap(projection).current = Finite(90, 1)
    /\ unwrap(projection).minimum = Finite(45, 1)
    /\ unwrap(projection).maximum = Finite(95, 1)

\* C8 as stated: with no ungraded record, upside = 0 and minimum = maximum.
C8_NothingLeft ==
    (Projected /\ NoneUngraded)
        => /\ unwrap(projection).upside = Zero
           /\ unwrap(projection).minimum = unwrap(projection).maximum

\* C8 amended: with no ungraded record, upside = 0 when the graded weight sum
\* is positive, and minimum = maximum exactly when the graded weight sum is 100.
C8_NothingLeftFullWeight ==
    (Projected /\ NoneUngraded)
        => /\ GradedWeightSum > 0 => unwrap(projection).upside = Zero
           /\ GradedWeightSum = 100 <=>
                 unwrap(projection).minimum = unwrap(projection).maximum

\* C8's case: two graded rows of weight 50, none ungraded, a grade that is not 0.
C8_Witness ==
    /\ Projected /\ NoneUngraded
    /\ GradedWeightSum = 100
    /\ unwrap(projection).minimum = Finite(90, 1)
    /\ unwrap(projection).maximum = Finite(90, 1)
    /\ unwrap(projection).upside = Zero

\* C9: over a ranked list of N candidates and answers that are all valid
\* ("y", "yes", empty, "n", "no"), the selection ends after at most N lines
\* read.
C9_ValidInputTerminates ==
    (cmd = "submit" /\ allValid)
        => /\ reads <= Len(candidates)
           /\ pc = "validate" => reads < Len(candidates)

\* C10: when no assignment is ungraded, submit fails with an error before it
\* sorts, searches or prompts, and nothing is released.
C10_EmptyFailsFirst ==
    (cmd = "submit" /\ Ungraded(portal) = <<>>)
        => /\ steps \cap (SelectionSteps \cup {"late_check", "late_answer", "submit"}) = {}
           /\ reads = 0 /\ ~latePrompted
           /\ to_submit = 0 /\ released = 0
           /\ pc \in {"args", "fetch", "check_empty", "err"}
           /\ ev = "check_empty" => (pc = "err" /\ err = "all_graded")

\* C10's case: every row graded, the command stopped at the emptiness test.
C10_Witness ==
    /\ cmd = "submit" /\ portal # <<>> /\ Ungraded(portal) = <<>>
    /\ ev = "check_empty" /\ pc = "err" /\ err = "all_graded"

\* A line that is an answer of the given kind once trimmed and lower-cased.
IsAffirmative(line) == line # IoError /\ to_lowercase(trim(line)) \in {y, yes, empty}
IsNegative(line) == line # IoError /\ to_lowercase(trim(line)) \in {n, no}
IsMalformed(line) == line # IoError /\ ~IsAffirmative(line) /\ ~IsNegative(line)

\* C11: a line that is neither affirmative nor negative, read at the
\* candidate prompt, leaves the workflow asking about the same candidate:
\* the position in the ranked list, the ranked list and the candidates are
\* unchanged, nothing is chosen or released, and no error is returned,
\* however many such lines came before.
C11_MalformedReprompts ==
    [][(pc = "validate" /\ ev' = "validate" /\ reads' = reads + 1 /\ IsMalformed(ans'))
         => /\ pc' = "validate"
            /\ k' = k /\ asked' = k
            /\ candidates' = candidates
            /\ assignments' = assignments
            /\ to_submit' = to_submit /\ to_submit = 0
            /\ released' = released /\ released = 0
            /\ err' = NoError]_vars

\* C11's case: a second malformed line in a row at the first candidate's
\* prompt, the workflow still asking about it.
C11_Witness ==
    /\ cmd = "submit" /\ ~recent
    /\ ev = "validate" /\ IsMalformed(ans)
    /\ reads >= 2 /\ k = 1 /\ allValid = FALSE
    /\ pc = "validate" /\ err = NoError

Rows(table) == {table[i] : i \in DOMAIN table}

\* C12: in fuzzy mode at most one assignment reaches the submission step,
\* and only an ungraded one that the search returned, that the user accepted
\* at its own prompt and, when late, accepted again at the lateness prompt;
\* an empty search result, a ranked list rejected to its end or an abort
\* release nothing.
C12_OnlyConfirmedReleased ==
    /\ []((cmd = "submit" /\ ~recent) =>
            /\ to_submit # 0 =>
                  /\ "search" \in steps /\ "validate" \in steps
                  /\ asked \in DOMAIN candidates
                  /\ to_submit = candidates[asked]
                  /\ Chosen \in Rows(portal) /\ ~graded(Chosen)
            /\ released # 0 =>
                  /\ pc = "done" /\ err = NoError
                  /\ to_submit # 0 /\ released = Chosen.id
                  /\ now >= Chosen.due_date =>
                        (latePrompted /\ Lowered \in {y, yes} /\ "late_answer" \in steps)
            /\ pc = "err" => released = 0
            /\ ("search" \in steps /\ candidates = <<>>) =>
                  (reads = 0 /\ to_submit = 0 /\ released = 0))
    /\ [][(cmd = "submit" /\ ~recent) =>
            /\ to_submit' # to_submit =>
                  /\ to_submit = 0 /\ pc = "validate"
                  /\ ev' = "validate" /\ IsAffirmative(ans')
                  /\ to_submit' = candidates[k]
            /\ released' # released =>
                  /\ released = 0 /\ pc = "submit" /\ pc' = "done"
                  /\ (latePrompted => (ev = "late_answer" /\ Lowered \in {y, yes}))]_vars

\* C12's case: fuzzy mode, two ranked candidates, the first refused, the
\* second accepted, late, and released after the lateness prompt.
C12_Witness ==
    /\ cmd = "submit" /\ ~recent
    /\ Len(candidates) = 2 /\ asked = 2
    /\ released # 0 /\ released = assignments[candidates[2]].id
    /\ latePrompted /\ pc = "done"

====
